---- MODULE Spec2Model ----
(***************************************************************************)
(* NumericDataAnalyzer (xai/data/explorer/numerical/numerical_analyzer.py) *)
(* as a state machine: a type-checked value collector with three methods,  *)
(* feed, feed_all and get_statistics.                                      *)
(*                                                                         *)
(* A Python object is modelled by its instance dictionary, a function from *)
(* attribute names to values.  A Python value is a record with a `type`    *)
(* field; numbers carry their value doubled in `x2` so that 2.5 is         *)
(* representable (x2 = 5).                                                 *)
(***************************************************************************)
EXTENDS Integers, Sequences, FiniteSets, TLC

VARIABLES self, heap, last, inputs, pc

vars == <<self, heap, last, inputs, pc>>

\* ------------------------------------------------------------------ bounds
\* longest Value Buffer explored
MaxLen == 3
\* longest argument of one feed_all call
MaxBatch == 2
\* number of get_statistics calls explored (objects allocated)
MaxCalls == 2

\* ------------------------------------------------------------ Python values
None == [type |-> "NoneType"]

PyInt(n) == [type |-> "int", x2 |-> 2 * n]

PyFloat(halves) == [type |-> "float", x2 |-> halves]

PyStr == [type |-> "str", x2 |-> 0]

\* True: bool is a subclass of int, but type(True) is bool
PyBool == [type |-> "bool", x2 |-> 2]

\* values of the kinds the analyzer declares: 1 and 2.5
SupportedValues == {PyInt(1), PyFloat(5)}

\* the values a caller may pass to feed / put into a feed_all argument
Values == SupportedValues \cup {PyStr, PyBool}

Range(s) == {s[k] : k \in 1..Len(s)}

SeqsUpTo(S, n) == UNION {[1..k -> S] : k \in 0..n}

\* ------------------------------------------------------------- the class
\* variant: the real-valued kind left out of the list
SUPPORTED_TYPES_int_only == <<"int">>

SUPPORTED_TYPES == <<"int", "float">>

\* names defined in the body of class NumericDataAnalyzer
ClassAttrs == {"SUPPORTED_TYPES", "__init__", "feed", "feed_all", "get_statistics"}

\* names the abstract analyzer capability provides
AbstractDataAnalyzerAttrs == {"feed", "feed_all", "get_statistics"}

\* __init__: the instance dictionary after construction
NumericDataAnalyzer == ("_values" :> <<>>) @@ ("stats" :> None)

\* attribute lookup on an instance: instance dictionary, class, base class
HasAttr(obj, name) ==
  \/ name \in DOMAIN obj
  \/ name \in ClassAttrs
  \/ name \in AbstractDataAnalyzerAttrs

NoException == [name |-> "None", args |-> <<>>]

ItemDataTypeNotSupported(rejected, component, supported) ==
  [name |-> "ItemDataTypeNotSupported", args |-> <<rejected, component, supported>>]

AttributeError(component, attr) ==
  [name |-> "AttributeError", args |-> <<component, attr>>]

\* variant: isinstance(value, (int, float)) in place of the exact type test,
\* which lets bool through as a subclass of int
feed_isinstance(obj, value) ==
  IF value.type \notin Range(SUPPORTED_TYPES) \cup {"bool"}
  THEN [obj |-> obj,
        exc |-> ItemDataTypeNotSupported(value.type, "NumericDataAnalyzer", SUPPORTED_TYPES)]
  ELSE [obj |-> [obj EXCEPT !["_values"] = Append(@, value)],
        exc |-> NoException]

\* variant: the append placed before the type test
feed_append_first(obj, value) ==
  IF value.type \notin Range(SUPPORTED_TYPES)
  THEN [obj |-> [obj EXCEPT !["_values"] = Append(@, value)],
        exc |-> ItemDataTypeNotSupported(value.type, "NumericDataAnalyzer", SUPPORTED_TYPES)]
  ELSE [obj |-> [obj EXCEPT !["_values"] = Append(@, value)],
        exc |-> NoException]

\* feed(value): outcome is the object afterwards and the exception raised
feed(obj, value) ==
  IF value.type \notin Range(SUPPORTED_TYPES)
  THEN [obj |-> obj,
        exc |-> ItemDataTypeNotSupported(value.type, "NumericDataAnalyzer", SUPPORTED_TYPES)]
  ELSE [obj |-> [obj EXCEPT !["_values"] = Append(@, value)],
        exc |-> NoException]

\* variant: the loop catches the exception of a value, goes on with the rest
\* and raises the first exception at the end
RECURSIVE feed_all_skipping(_, _)
feed_all_skipping(obj, values) ==
  IF values = <<>>
  THEN [obj |-> obj, exc |-> NoException]
  ELSE LET r == feed(obj, Head(values))
           rest == feed_all_skipping(r.obj, Tail(values))
       IN IF r.exc # NoException
          THEN [obj |-> rest.obj, exc |-> r.exc]
          ELSE rest

\* feed_all(values): the for loop, left at the first exception feed raises
RECURSIVE feed_all(_, _)
feed_all(obj, values) ==
  IF values = <<>>
  THEN [obj |-> obj, exc |-> NoException]
  ELSE LET r == feed(obj, Head(values))
       IN IF r.exc # NoException
          THEN r
          ELSE feed_all(r.obj, Tail(values))

\* --------------------------------------------------- the Statistics Deriver
\* the "no value" marker of the serialized record
NoValue == None

RECURSIVE GCD(_, _)
GCD(a, b) == IF b = 0 THEN a ELSE GCD(b, a % b)

Abs(a) == IF a < 0 THEN -a ELSE a

\* the number n/d in lowest terms, d > 0
Number(n, d) ==
  LET g == GCD(Abs(n), d)
  IN [type |-> "number", num |-> n \div g, den |-> d \div g]

\* square root: exact when the fraction is a square, symbolic otherwise
Sqrt(r) ==
  IF \E a \in 0..r.num, b \in 1..r.den : a * a = r.num /\ b * b = r.den
  THEN LET a == CHOOSE k \in 0..r.num : k * k = r.num
           b == CHOOSE k \in 1..r.den : k * k = r.den
       IN Number(a, b)
  ELSE [type |-> "sqrt", of |-> r]

RECURSIVE SumX2(_)
SumX2(values) == IF values = <<>> THEN 0 ELSE Head(values).x2 + SumX2(Tail(values))

RECURSIVE SumSqDev(_, _, _)
SumSqDev(values, n, s) ==
  IF values = <<>> THEN 0
  ELSE (n * Head(values).x2 - s) * (n * Head(values).x2 - s) + SumSqDev(Tail(values), n, s)

\* a newly created Statistics Record; id is its object identity
NumericalStats(id) ==
  [type |-> "NumericalStats", id |-> id,
   count |-> NoValue, min |-> NoValue, max |-> NoValue, mean |-> NoValue,
   median |-> NoValue, variance |-> NoValue, standard_deviation |-> NoValue,
   sum |-> NoValue]

\* the record after deriving the statistics of `values` (values are x2 / 2)
updates_stats_from_values(stats, values) ==
  LET n == Len(values)
      sorted == SortSeq(values, LAMBDA a, b : a.x2 < b.x2)
      s == SumX2(values)
      variance == Number(SumSqDev(values, n, s), 4 * n * n * n)
  IN IF n = 0
     THEN [stats EXCEPT !.count = Number(0, 1), !.sum = Number(0, 1)]
     ELSE [stats EXCEPT
             !.count = Number(n, 1),
             !.min = Number(sorted[1].x2, 2),
             !.max = Number(sorted[n].x2, 2),
             !.mean = Number(s, 2 * n),
             !.median = IF n % 2 = 1
                        THEN Number(sorted[(n + 1) \div 2].x2, 2)
                        ELSE Number(sorted[n \div 2].x2 + sorted[n \div 2 + 1].x2, 4),
             !.variance = variance,
             !.standard_deviation = Sqrt(variance),
             !.sum = Number(s, 2)]

\* the plain mapping from statistic name to value
to_json(stats) ==
  [count |-> stats.count, min |-> stats.min, max |-> stats.max, mean |-> stats.mean,
   median |-> stats.median, variance |-> stats.variance,
   standard_deviation |-> stats.standard_deviation, sum |-> stats.sum]

\* ---------------------------------------------------------- get_statistics
NotHanded == [called |-> FALSE, values |-> <<>>]

\* variant: the record is created only when none is cached yet
get_statistics_cached(obj, id) ==
  LET created == IF obj["stats"] = None
                 THEN [obj EXCEPT !["stats"] = NumericalStats(id)]
                 ELSE obj
  IN IF ~HasAttr(created, "values")
     THEN [obj |-> created,
           exc |-> AttributeError("NumericDataAnalyzer", "values"),
           ret |-> None,
           handed |-> NotHanded]
     ELSE LET updated == updates_stats_from_values(created["stats"], created["values"])
          IN [obj |-> [created EXCEPT !["stats"] = updated],
              exc |-> NoException,
              ret |-> to_json(updated),
              handed |-> [called |-> TRUE, values |-> created["values"]]]

\* variant: the buffer is emptied when the statistics are requested
get_statistics_clearing(obj, id) ==
  LET created == [obj EXCEPT !["stats"] = NumericalStats(id), !["_values"] = <<>>]
  IN IF ~HasAttr(created, "values")
     THEN [obj |-> created,
           exc |-> AttributeError("NumericDataAnalyzer", "values"),
           ret |-> None,
           handed |-> NotHanded]
     ELSE LET updated == updates_stats_from_values(created["stats"], created["values"])
          IN [obj |-> [created EXCEPT !["stats"] = updated],
              exc |-> NoException,
              ret |-> to_json(updated),
              handed |-> [called |-> TRUE, values |-> created["values"]]]

\* get_statistics(): `id` is the identity of the record line 46 allocates.
\* The argument of the Deriver call is the attribute `values` of the
\* instance; looking it up comes before the call.
get_statistics(obj, id) ==
  LET created == [obj EXCEPT !["stats"] = NumericalStats(id)]
  IN IF ~HasAttr(created, "values")
     THEN [obj |-> created,
           exc |-> AttributeError("NumericDataAnalyzer", "values"),
           ret |-> None,
           handed |-> NotHanded]
     ELSE LET updated == updates_stats_from_values(created["stats"], created["values"])
          IN [obj |-> [created EXCEPT !["stats"] = updated],
              exc |-> NoException,
              ret |-> to_json(updated),
              handed |-> [called |-> TRUE, values |-> created["values"]]]

\* ------------------------------------------------------------ state machine
\* self[i]   instance dictionary of analyzer i
\* heap      number of Statistics Records allocated so far
\* last[i]   the latest call on analyzer i: method, argument, outcome
\* inputs    the sequences a scenario feeds (SpecPair), <<>> otherwise
\* pc[i]     position of analyzer i in a scenario, "free" otherwise

NoCall ==
  [op |-> "none", arg |-> <<>>, exc |-> NoException, ret |-> None, handed |-> NotHanded]

Buffer(i) == self[i]["_values"]

\* one analyzer, driven by any sequence of calls
Init ==
  /\ self = [i \in {1} |-> NumericDataAnalyzer]
  /\ heap = 0
  /\ last = [i \in {1} |-> NoCall]
  /\ inputs = <<>>
  /\ pc = [i \in {1} |-> "free"]

Feed(i, value) ==
  LET r == feed(self[i], value)
  IN /\ pc[i] = "free"
     /\ Len(r.obj["_values"]) <= MaxLen
     /\ self' = [self EXCEPT ![i] = r.obj]
     /\ last' = [last EXCEPT ![i] = [op |-> "feed", arg |-> <<value>>, exc |-> r.exc,
                                     ret |-> None, handed |-> NotHanded]]
     /\ UNCHANGED <<heap, inputs, pc>>

FeedAll(i, values) ==
  LET r == feed_all(self[i], values)
  IN /\ pc[i] = "free"
     /\ Len(r.obj["_values"]) <= MaxLen
     /\ self' = [self EXCEPT ![i] = r.obj]
     /\ last' = [last EXCEPT ![i] = [op |-> "feed_all", arg |-> values, exc |-> r.exc,
                                     ret |-> None, handed |-> NotHanded]]
     /\ UNCHANGED <<heap, inputs, pc>>

GetStatistics(i) ==
  LET r == get_statistics(self[i], heap + 1)
  IN /\ pc[i] = "free"
     /\ heap < MaxCalls
     /\ heap' = heap + 1
     /\ self' = [self EXCEPT ![i] = r.obj]
     /\ last' = [last EXCEPT ![i] = [op |-> "get_statistics", arg |-> <<>>, exc |-> r.exc,
                                     ret |-> r.ret, handed |-> r.handed]]
     /\ UNCHANGED <<inputs, pc>>

Next ==
  \/ \E value \in Values : Feed(1, value)
  \/ \E values \in SeqsUpTo(Values, MaxBatch) : FeedAll(1, values)
  \/ GetStatistics(1)

Spec == Init /\ [][Next]_vars

\* ---------------------------------------------------------------- scenario
\* two fresh analyzers; analyzer i is fed inputs[i] with one feed_all call and
\* then asked for its statistics.  inputs[2] is a permutation of inputs[1].

IsPermutation(s, t) ==
  /\ Len(s) = Len(t)
  /\ \E f \in [1..Len(s) -> 1..Len(s)] :
       /\ \A j, k \in 1..Len(s) : f[j] = f[k] => j = k
       /\ \A k \in 1..Len(s) : t[k] = s[f[k]]

InitPair ==
  /\ self = [i \in {1, 2} |-> NumericDataAnalyzer]
  /\ heap = 0
  /\ last = [i \in {1, 2} |-> NoCall]
  /\ inputs \in {p \in SeqsUpTo(SupportedValues, MaxLen) \X SeqsUpTo(SupportedValues, MaxLen) :
                   IsPermutation(p[1], p[2])}
  /\ pc = [i \in {1, 2} |-> "fresh"]

PairFeedAll(i) ==
  LET r == feed_all(self[i], inputs[i])
  IN /\ pc[i] = "fresh"
     /\ pc' = [pc EXCEPT ![i] = "fed"]
     /\ self' = [self EXCEPT ![i] = r.obj]
     /\ last' = [last EXCEPT ![i] = [op |-> "feed_all", arg |-> inputs[i], exc |-> r.exc,
                                     ret |-> None, handed |-> NotHanded]]
     /\ UNCHANGED <<heap, inputs>>

PairGetStatistics(i) ==
  LET r == get_statistics(self[i], heap + 1)
  IN /\ pc[i] = "fed"
     /\ pc' = [pc EXCEPT ![i] = "done"]
     /\ heap' = heap + 1
     /\ self' = [self EXCEPT ![i] = r.obj]
     /\ last' = [last EXCEPT ![i] = [op |-> "get_statistics", arg |-> <<>>, exc |-> r.exc,
                                     ret |-> r.ret, handed |-> r.handed]]
     /\ UNCHANGED inputs

NextPair ==
  \/ \E i \in {1, 2} : PairFeedAll(i)
  \/ \E i \in {1, 2} : PairGetStatistics(i)

SpecPair == InitPair /\ [][NextPair]_vars

\* ------------------------------------------------------------------ claims
\* the two supported numeric kinds, as the specification names them
NumericKinds == {"int", "float"}

IsPrefix(s, t) == Len(s) <= Len(t) /\ SubSeq(t, 1, Len(s)) = s

\* index of the first value of an unsupported kind, 0 when there is none
FirstUnsupported(values) ==
  IF \E k \in 1..Len(values) : values[k].type \notin NumericKinds
  THEN CHOOSE k \in 1..Len(values) :
         /\ values[k].type \notin NumericKinds
         /\ \A j \in 1..(k - 1) : values[j].type \in NumericKinds
  ELSE 0

\* C1: feed of a value whose type is not exactly int or float raises the
\* unsupported-type error carrying the rejected type, the rejecting
\* component's type and the accepted kinds [int, float], and leaves the
\* Value Buffer as it was.
C1_FeedRejectsUnsupported ==
  [][(last'[1].op = "feed" /\ last'[1].arg[1].type \notin NumericKinds)
       => /\ last'[1].exc.name = "ItemDataTypeNotSupported"
          /\ last'[1].exc.args = <<last'[1].arg[1].type, "NumericDataAnalyzer", <<"int", "float">> >>
          /\ Buffer(1)' = Buffer(1)]_vars

\* a bool was fed to a non-empty buffer and rejected
C1_Witness ==
  /\ last[1].op = "feed"
  /\ last[1].arg[1].type = "bool"
  /\ last[1].exc.name = "ItemDataTypeNotSupported"
  /\ Len(Buffer(1)) > 0

\* C2: feed of a value of a supported kind succeeds and leaves the buffer
\* equal to the earlier buffer with the value appended at the end.
C2_FeedAppends ==
  [][(last'[1].op = "feed" /\ last'[1].arg[1].type \in NumericKinds)
       => /\ last'[1].exc = NoException
          /\ Buffer(1)' = Append(Buffer(1), last'[1].arg[1])]_vars

\* a real value was appended to a buffer that held an integral one; the two
\* ends of the buffer differ, so appending and prepending are told apart
C2_Witness ==
  /\ last[1].op = "feed"
  /\ last[1].exc = NoException
  /\ Len(Buffer(1)) >= 2
  /\ Buffer(1)[1].type = "int"
  /\ Buffer(1)[Len(Buffer(1))] = PyFloat(5)

\* C3: feed_all is fail-fast: with the first unsupported value at index i,
\* the call raises the unsupported-type error for that value and the buffer
\* is the earlier buffer followed by exactly the values before index i.
C3_FeedAllFailFast ==
  [][(last'[1].op = "feed_all" /\ FirstUnsupported(last'[1].arg) > 0)
       => LET values == last'[1].arg
              i == FirstUnsupported(values)
          IN /\ last'[1].exc.name = "ItemDataTypeNotSupported"
             /\ last'[1].exc.args[1] = values[i].type
             /\ Buffer(1)' = Buffer(1) \o SubSeq(values, 1, i - 1)]_vars

\* a feed_all whose failing value is followed by a supported one
C3_Witness ==
  /\ last[1].op = "feed_all"
  /\ last[1].exc.name = "ItemDataTypeNotSupported"
  /\ FirstUnsupported(last[1].arg) > 0
  /\ FirstUnsupported(last[1].arg) < Len(last[1].arg)
  /\ last[1].arg[Len(last[1].arg)].type \in NumericKinds
  /\ Len(Buffer(1)) > 0

\* C3, second case: a feed_all that appended a value before the failing one
C3_WitnessPrefix ==
  /\ last[1].op = "feed_all"
  /\ last[1].exc.name = "ItemDataTypeNotSupported"
  /\ FirstUnsupported(last[1].arg) > 1

\* C4: feed_all(s) of supported values on a fresh analyzer followed by
\* get_statistics() returns a record whose count is the length of s.
C4_CountIsLength ==
  pc[1] = "done"
    => /\ last[1].exc = NoException
       /\ last[1].ret # None
       /\ last[1].ret.count = Number(Len(inputs[1]), 1)

\* C5: get_statistics() leaves the Value Buffer and every other attribute
\* unchanged and replaces the cached result by a newly created record.
C5_GetStatisticsFrame ==
  [][(last'[1].op = "get_statistics" /\ heap' # heap)
       => /\ Buffer(1)' = Buffer(1)
          /\ DOMAIN self'[1] = DOMAIN self[1]
          /\ \A a \in DOMAIN self[1] \ {"stats"} : self'[1][a] = self[1][a]
          /\ self'[1]["stats"].type = "NumericalStats"
          /\ self'[1]["stats"] # self[1]["stats"]
          /\ self'[1]["stats"].id \notin 1..heap]_vars

\* a second get_statistics() on a non-empty buffer: a record was cached
\* before the call
C5_Witness ==
  /\ last[1].op = "get_statistics"
  /\ heap >= 2
  /\ self[1]["stats"].type = "NumericalStats"
  /\ Len(Buffer(1)) > 0

\* C6: get_statistics() on an analyzer with nothing fed raises nothing and
\* returns count = 0 with min, max, mean, median, variance and
\* standard_deviation all the "no value" marker.
C6_EmptyBuffer ==
  (last[1].op = "get_statistics" /\ Buffer(1) = <<>>)
    => /\ last[1].exc = NoException
       /\ last[1].ret # None
       /\ last[1].ret.count = Number(0, 1)
       /\ \A f \in {"min", "max", "mean", "median", "variance", "standard_deviation"} :
            last[1].ret[f] = NoValue

\* C7: every element of the Value Buffer is of a supported numeric kind.
C7_BufferSupportedOnly ==
  \A i \in DOMAIN self : \A k \in 1..Len(Buffer(i)) : Buffer(i)[k].type \in NumericKinds

\* a buffer holding both kinds, after a failing feed_all and a get_statistics
C7_Witness ==
  /\ \E k \in 1..Len(Buffer(1)) : Buffer(1)[k].type = "int"
  /\ \E k \in 1..Len(Buffer(1)) : Buffer(1)[k].type = "float"
  /\ last[1].op = "feed_all"
  /\ last[1].exc.name = "ItemDataTypeNotSupported"
  /\ heap > 0

\* C8: two fresh analyzers fed permutations of one sequence yield identical
\* Statistics Records from get_statistics().
C8_OrderIndependent ==
  (pc[1] = "done" /\ pc[2] = "done")
    => /\ last[1].exc = NoException
       /\ last[2].exc = NoException
       /\ last[1].ret # None
       /\ last[1].ret = last[2].ret

\* C9: the sequence get_statistics() hands to the Deriver is the Value
\* Buffer feed and feed_all append to.
C9_DeriverGetsBuffer ==
  \A i \in DOMAIN self :
    last[i].op = "get_statistics"
      => /\ last[i].handed.called
         /\ last[i].handed.values = Buffer(i)

\* C10: the Value Buffer is grow-only: the buffer before any step is a
\* prefix of the buffer after it.
C10_GrowOnly ==
  [][IsPrefix(Buffer(1), Buffer(1)')]_vars

\* a buffer that has grown, after a get_statistics and a failing feed_all
C10_Witness ==
  /\ Len(Buffer(1)) >= 2
  /\ heap > 0
  /\ last[1].op = "feed_all"
  /\ last[1].exc.name = "ItemDataTypeNotSupported"
  /\ FirstUnsupported(last[1].arg) > 1

====
